---- MODULE Spec2Model ----
(***************************************************************************)
(* Model of the candles-sdk core: the granularity calendar (CandleType),   *)
(* the historical price cache (CandlePricesCache) and the live aggregation *)
(* cache (CandlesCache).                                                   *)
(*                                                                         *)
(* Representation.  A DateTime<Utc> is its number of whole seconds since   *)
(* the Unix epoch (what DateTime::timestamp() returns); the code builds    *)
(* every bucket boundary from such a number of seconds through             *)
(* timestamp_millis_opt(secs * 1000), which is the instant `secs`.  Rates  *)
(* and volumes (f64) are small integers, on which f64 arithmetic is exact. *)
(* A HashMap / BTreeMap is a function from its keys to its values.         *)
(***************************************************************************)
EXTENDS Integers, Sequences, FiniteSets, TLC

VARIABLES
    call,               \* the public operation called last, with its arguments
    ret,                \* what that call returned
    panicked,           \* whether that call panicked instead of returning
    pc,                 \* position inside get_start_dates: "idle" or "loop"
    last_date,          \* get_start_dates: local last_date
    date_to,            \* get_start_dates: local date_to
    dates,              \* get_start_dates: local dates (HashSet)
    iters,              \* get_start_dates: loop iterations executed so far
    candle_type,        \* CandlePricesCache.candle_type
    prices_by_date,     \* CandlePricesCache.prices_by_date
    candle_types,       \* CandlesCache.candle_types
    candles_by_ids,     \* CandlesCache.candles_by_ids
    last_update_date,   \* CandlesCache.last_update_date
    now,                \* the wall clock read by Utc::now(), in ticks
    history             \* the ticks ingested so far, oldest first (kept by
                        \* SpecFold and SpecIngest, which only ingest)

calVars    == <<pc, last_date, date_to, dates, iters>>
pricesVars == <<candle_type, prices_by_date>>
cacheVars  == <<candle_types, candles_by_ids, last_update_date, now>>
vars == <<call, ret, panicked, calVars, pricesVars, cacheVars, history>>

None == "None"

\* Option<T> as returned by a query: None, or Some(value).
NoneOpt == [some |-> FALSE]
Some(v) == [some |-> TRUE, value |-> v]

\* What ret holds after a call that panicked.
Panic == "panic"

(***************************************************************************)
(* Bounds of the model.                                                    *)
(***************************************************************************)
MaxIters == 4       \* loop iterations of get_start_dates that are followed
MaxTicks == 3       \* ticks kept in history
MaxVolume == 3      \* largest accumulated volume of a historical bar
MaxClock == 3       \* mutating calls on a CandlesCache that are followed
MaxBuckets == 3     \* buckets spanned by the ranges built from a bucket start

(***************************************************************************)
(* CandleType                                                              *)
(***************************************************************************)
CandleType ==
    { "Minute", "Hour", "Day", "Month", "ThreeMinutes", "FiveMinutes",
      "FifteenMinutes", "ThirtyMinutes", "TwoHours", "FourHours", "SixHours",
      "EightHours", "TwelveHours", "ThreeDays", "SevenDays" }

\* #[repr(i32)] discriminants; the derived Ord compares them.
Discriminant(self) ==
    CASE self = "Minute"         -> 0
      [] self = "Hour"           -> 1
      [] self = "Day"            -> 2
      [] self = "Month"          -> 3
      [] self = "ThreeMinutes"   -> 4
      [] self = "FiveMinutes"    -> 5
      [] self = "FifteenMinutes" -> 6
      [] self = "ThirtyMinutes"  -> 7
      [] self = "TwoHours"       -> 8
      [] self = "FourHours"      -> 9
      [] self = "SixHours"       -> 10
      [] self = "EightHours"     -> 11
      [] self = "TwelveHours"    -> 12
      [] self = "ThreeDays"      -> 13
      [] self = "SevenDays"      -> 14

\* The derived From<CandleType> for i32 (IntoPrimitive) and Serialize_repr:
\* the wire code of a granularity is its discriminant.
into(self) == Discriminant(self)

\* A decoder that maps a number outside the table to the nearest variant
\* instead of refusing it.
try_from_primitive_saturating(number) ==
    LET n == IF number < 0 THEN 0 ELSE IF number > 14 THEN 14 ELSE number
    IN  [ok |-> TRUE, value |-> CHOOSE g \in CandleType : Discriminant(g) = n]

\* The derived TryFromPrimitive (and Deserialize_repr): the number is matched
\* against the discriminant of every variant; a number that matches none is
\* returned inside an Err.
try_from_primitive(number) ==
    IF \E g \in CandleType : Discriminant(g) = number
    THEN [ok |-> TRUE, value |-> CHOOSE g \in CandleType : Discriminant(g) = number]
    ELSE [ok |-> FALSE, number |-> number]

\* Rust's % on i64: the remainder of the division truncated toward zero, so
\* it carries the sign of the dividend.
Rem(a, b) == IF a >= 0 THEN a % b ELSE -((-a) % b)

(***************************************************************************)
(* The proleptic Gregorian calendar of chrono, in UTC.                     *)
(***************************************************************************)
\* Days since 1970-01-01 of the civil date y-m-d.
DaysFromCivil(y, m, d) ==
    LET yy  == IF m <= 2 THEN y - 1 ELSE y
        era == yy \div 400
        yoe == yy - era * 400
        mp  == IF m > 2 THEN m - 3 ELSE m + 9
        doy == (153 * mp + 2) \div 5 + d - 1
        doe == yoe * 365 + yoe \div 4 - yoe \div 100 + doy
    IN  era * 146097 + doe - 719468

\* The civil date <<year, month, day>> of the day z days after 1970-01-01.
CivilFromDays(z) ==
    LET zz  == z + 719468
        era == zz \div 146097
        doe == zz - era * 146097
        yoe == (doe - doe \div 1460 + doe \div 36524 - doe \div 146096) \div 365
        doy == doe - (365 * yoe + yoe \div 4 - yoe \div 100)
        mp  == (5 * doy + 2) \div 153
        d   == doy - (153 * mp + 2) \div 5 + 1
        m   == IF mp < 10 THEN mp + 3 ELSE mp - 9
        y   == yoe + era * 400
    IN  << IF m <= 2 THEN y + 1 ELSE y, m, d >>

\* Datelike::year, Datelike::month and Datelike::day of a DateTime<Utc>.
year(datetime)  == CivilFromDays(datetime \div 86400)[1]
month(datetime) == CivilFromDays(datetime \div 86400)[2]
day(datetime)   == CivilFromDays(datetime \div 86400)[3]

\* Utc.with_ymd_and_hms(y, m, d, h, mi, s).unwrap()
with_ymd_and_hms(y, m, d, h, mi, s) ==
    DaysFromCivil(y, m, d) * 86400 + h * 3600 + mi * 60 + s

(***************************************************************************)
(* CandleType::get_start_date, get_duration, get_end_date                  *)
(***************************************************************************)
\* The modulus each fixed-stride arm of get_start_date floors with.
StartModulus(self) ==
    CASE self = "Minute"         -> 60
      [] self = "Hour"           -> 3600
      [] self = "Day"            -> 86400
      [] self = "ThreeMinutes"   -> 180
      [] self = "FiveMinutes"    -> 300
      [] self = "FifteenMinutes" -> 900
      [] self = "ThirtyMinutes"  -> 1800
      [] self = "TwoHours"       -> 7200
      [] self = "FourHours"      -> 14400
      [] self = "SixHours"       -> 21600
      [] self = "EightHours"     -> 28800
      [] self = "TwelveHours"    -> 43200
      [] self = "ThreeDays"      -> 604800
      [] self = "SevenDays"      -> 1036800

\* The Month arm of get_duration without the roll-over of the year after
\* December.
get_duration_of_month_same_year(datetime) ==
    LET start_of_month ==
            with_ymd_and_hms(year(datetime), month(datetime), 1, 0, 0, 0)
        next_month == IF month(datetime) = 12 THEN 1 ELSE month(datetime) + 1
        end_of_month == with_ymd_and_hms(year(datetime), next_month, 1, 0, 0, 0)
    IN  end_of_month - start_of_month

\* Seconds from the first instant of datetime's month to the first instant of
\* the following month (the Month arm of get_duration).
get_duration_of_month(datetime) ==
    LET start_of_month ==
            with_ymd_and_hms(year(datetime), month(datetime), 1, 0, 0, 0)
        next_month == IF month(datetime) = 12 THEN 1 ELSE month(datetime) + 1
        next_year  == IF month(datetime) = 12 THEN year(datetime) + 1
                                              ELSE year(datetime)
        end_of_month == with_ymd_and_hms(next_year, next_month, 1, 0, 0, 0)
    IN  end_of_month - start_of_month

\* get_start_date rounding up to the next boundary instead of down.
get_start_date_round_up(self, datetime) ==
    IF self = "Month"
    THEN with_ymd_and_hms(year(datetime), month(datetime), 1, 0, 0, 0)
         + get_duration_of_month(datetime)
    ELSE datetime - Rem(datetime, StartModulus(self)) + StartModulus(self)

get_start_date(self, datetime) ==
    LET timestamp_sec == datetime
    IN  IF self = "Month"
        THEN LET date == timestamp_sec
             IN  with_ymd_and_hms(year(date), month(date), 1, 0, 0, 0)
        ELSE timestamp_sec - Rem(timestamp_sec, StartModulus(self))

get_duration(self, datetime) ==
    CASE self = "Minute"         -> 60
      [] self = "Hour"           -> 3600
      [] self = "Day"            -> 86400
      [] self = "Month"          -> get_duration_of_month(datetime)
      [] self = "ThreeMinutes"   -> 3 * 60
      [] self = "FiveMinutes"    -> 5 * 60
      [] self = "FifteenMinutes" -> 15 * 60
      [] self = "ThirtyMinutes"  -> 30 * 60
      [] self = "TwoHours"       -> 2 * 3600
      [] self = "FourHours"      -> 4 * 3600
      [] self = "SixHours"       -> 6 * 3600
      [] self = "EightHours"     -> 8 * 3600
      [] self = "TwelveHours"    -> 12 * 3600
      [] self = "ThreeDays"      -> 3 * 86400
      [] self = "SevenDays"      -> 7 * 86400

get_end_date(self, datetime) ==
    LET start    == get_start_date(self, datetime)
        duration == get_duration(self, datetime)
    IN  start + duration

(***************************************************************************)
(* CandleType::get_dates_count                                             *)
(***************************************************************************)
\* Rust's / on i64 and Duration::num_minutes: the quotient truncated toward
\* zero.
Quot(a, b) == (a - Rem(a, b)) \div b

\* A u32 as its two 16-bit halves <<high, low>>.
U32(n) == <<n \div 65536, n % 65536>>

\* u32 subtraction as it wraps when overflow checks are off.
wrapping_sub(a, b) ==
    LET low    == a[2] - b[2]
        borrow == IF low < 0 THEN 1 ELSE 0
        high   == a[1] - b[1] - borrow
    IN  <<high % 65536, low % 65536>>

\* `as i32` of a u32: the same 32 bits read in two's complement.
as_i32(a) == (IF a[1] >= 32768 THEN a[1] - 65536 ELSE a[1]) * 65536 + a[2]

\* Whether `to.month() - from.month()` (line 137), a subtraction of two u32,
\* goes below zero.  With overflow checks on (the dev and test profiles) the
\* subtraction panics; with overflow checks off (the release profile) it
\* wraps.
month_diff_overflows(self, datetime_from, datetime_to) ==
    /\ self = "Month"
    /\ month(get_end_date(self, datetime_to))
          < month(get_start_date(self, datetime_from))

\* get_dates_count where the u32 subtraction does not panic.  The casts
\* `as usize` are applied to a count that is positive whenever
\* datetime_from <= datetime_to.
get_dates_count(self, datetime_from, datetime_to) ==
    LET from == get_start_date(self, datetime_from)
        to   == get_end_date(self, datetime_to)
    IN  CASE self = "Month" ->
                LET year_diff  == year(to) - year(from)
                    month_diff == wrapping_sub(U32(month(to)), U32(month(from)))
                    total_month_diff == year_diff * 12 + as_i32(month_diff)
                IN  total_month_diff
          [] self = "Minute" ->
                LET duration     == to - from
                    minute_count == Quot(duration, 60)
                IN  minute_count
          [] OTHER ->
                LET duration         == get_duration(self, datetime_from)
                    duration_between == to - from
                    count            == Quot(duration_between, duration)
                IN  count

(***************************************************************************)
(* CandleData: one OHLCV bar                                               *)
(***************************************************************************)
Max(a, b) == IF a >= b THEN a ELSE b
Min(a, b) == IF a <= b THEN a ELSE b

CandleData_new(datetime, rate, volume) ==
    [datetime |-> datetime, open |-> rate, high |-> rate, low |-> rate,
     close |-> rate, volume |-> volume]

\* The raw time of the tick is accepted and does not change self.datetime.
CandleData_update(self, datetime, rate, volume) ==
    [self EXCEPT !.high = Max(@, rate), !.low = Min(@, rate),
                 !.close = rate, !.volume = @ + volume]

(***************************************************************************)
(* Maps (BTreeMap, AHashMap)                                               *)
(***************************************************************************)
EmptyMap == [k \in {} |-> None]

\* insert: the value at key k is replaced or added.
Put(map, k, v) == [x \in (DOMAIN map) \cup {k} |-> IF x = k THEN v ELSE map[x]]

\* retain: the entries whose key is in keep.
Restrict(map, keep) == [x \in (DOMAIN map) \cap keep |-> map[x]]

\* The elements of a finite set of integers in ascending order.
RECURSIVE Ascending(_)
Ascending(S) ==
    IF S = {} THEN <<>>
    ELSE LET m == CHOOSE x \in S : \A y \in S : x <= y
         IN  <<m>> \o Ascending(S \ {m})

(***************************************************************************)
(* CandlePricesCache                                                       *)
(***************************************************************************)
init(prices, candle) == Put(prices, candle.datetime, candle)

\* update keyed by the raw tick time instead of the bucket start.
update_raw_key(self_type, prices, datetime, rate, volume) ==
    IF datetime \in DOMAIN prices
    THEN Put(prices, datetime,
             CandleData_update(prices[datetime], datetime, rate, volume))
    ELSE Put(prices, datetime, CandleData_new(datetime, rate, volume))

update(self_type, prices, datetime, rate, volume) ==
    LET candle_date   == get_start_date(self_type, datetime)
        timestamp_sec == candle_date
    IN  IF timestamp_sec \in DOMAIN prices
        THEN Put(prices, timestamp_sec,
                 CandleData_update(prices[timestamp_sec], datetime, rate, volume))
        ELSE Put(prices, timestamp_sec,
                 CandleData_new(candle_date, rate, volume))

\* BTreeMap::range(timestamp_from..timestamp_to) panics when the start of the
\* range is greater than its end; otherwise it yields the entries with
\* timestamp_from <= key < timestamp_to in ascending key order.
get_by_date_range(prices, arg_date_from, arg_date_to) ==
    LET timestamp_from == arg_date_from
        timestamp_to   == arg_date_to
    IN  IF timestamp_from > timestamp_to
        THEN Panic
        ELSE LET keys == Ascending({k \in DOMAIN prices :
                                      timestamp_from <= k /\ k < timestamp_to})
             IN  [i \in 1..Len(keys) |-> prices[keys[i]]]

clear(prices) == EmptyMap

(***************************************************************************)
(* BidAskCandle: a bid bar and an ask bar of one bucket                    *)
(***************************************************************************)
\* The key of a bar: a collision-free composition of its three inputs.
generate_id(instrument, self_type, datetime) ==
    <<instrument, Discriminant(self_type), datetime>>

get_id(self) == generate_id(self.instrument, self.candle_type, self.datetime)

BidAskCandle_update(self, datetime, bid, ask, bid_vol, ask_vol) ==
    [self EXCEPT
        !.bid_data = CandleData_update(@, datetime, bid, bid_vol),
        !.ask_data = CandleData_update(@, datetime, ask, ask_vol)]

(***************************************************************************)
(* CandlesCache                                                            *)
(***************************************************************************)
\* Vec::dedup: of each run of consecutive equal elements the first is kept.
RECURSIVE dedup(_)
dedup(v) ==
    IF Len(v) <= 1 THEN v
    ELSE IF v[1] = v[2] THEN dedup(Tail(v))
         ELSE <<v[1]>> \o dedup(Tail(v))

\* x placed in the sorted sequence v after the elements that are not greater.
RECURSIVE InsertSorted(_, _)
InsertSorted(x, v) ==
    IF v = <<>> THEN <<x>>
    ELSE IF Discriminant(x) < Discriminant(v[1]) THEN <<x>> \o v
         ELSE <<v[1]>> \o InsertSorted(x, Tail(v))

\* Vec::sort under the derived Ord of CandleType.
RECURSIVE sort(_)
sort(v) ==
    IF v = <<>> THEN <<>>
    ELSE InsertSorted(v[Len(v)], sort(SubSeq(v, 1, Len(v) - 1)))

\* CandlesCache::new: the candle_types field of the new cache.
new(arg_candle_types) == sort(dedup(arg_candle_types))

insert(candles, candle) == Put(candles, get_id(candle), candle)

\* The loop body keying the bar by the raw tick time instead of the bucket.
create_or_update_one_raw(candles, self_type, datetime, instrument, bid, ask, bid_vol, ask_vol) ==
    LET id == generate_id(instrument, self_type, datetime)
    IN  IF id \in DOMAIN candles
        THEN Put(candles, id,
                 BidAskCandle_update(candles[id], datetime, bid, ask,
                                     bid_vol, ask_vol))
        ELSE Put(candles, id,
                 [ask_data    |-> CandleData_new(datetime, ask, ask_vol),
                  bid_data    |-> CandleData_new(datetime, bid, bid_vol),
                  candle_type |-> self_type,
                  instrument  |-> instrument,
                  datetime    |-> datetime])

\* The body of the loop of create_or_update for one granularity.
create_or_update_one(candles, self_type, datetime, instrument, bid, ask, bid_vol, ask_vol) ==
    LET candle_datetime == get_start_date(self_type, datetime)
        id == generate_id(instrument, self_type, candle_datetime)
    IN  IF id \in DOMAIN candles
        THEN Put(candles, id,
                 BidAskCandle_update(candles[id], datetime, bid, ask,
                                     bid_vol, ask_vol))
        ELSE Put(candles, id,
                 [ask_data    |-> CandleData_new(datetime, ask, ask_vol),
                  bid_data    |-> CandleData_new(datetime, bid, bid_vol),
                  candle_type |-> self_type,
                  instrument  |-> instrument,
                  datetime    |-> candle_datetime])

\* create_or_update leaving the loop after the first granularity.
create_or_update_first_only(types, candles, datetime, instrument, bid, ask, bid_vol, ask_vol) ==
    IF types = <<>> THEN candles
    ELSE create_or_update_one(candles, types[1], datetime, instrument,
                              bid, ask, bid_vol, ask_vol)

\* create_or_update: the loop over self.candle_types, in order.
RECURSIVE create_or_update(_, _, _, _, _, _, _, _)
create_or_update(types, candles, datetime, instrument, bid, ask, bid_vol, ask_vol) ==
    IF types = <<>> THEN candles
    ELSE create_or_update(
             Tail(types),
             create_or_update_one(candles, types[1], datetime, instrument,
                                  bid, ask, bid_vol, ask_vol),
             datetime, instrument, bid, ask, bid_vol, ask_vol)

calculate_candle_dates(types, datetime) ==
    [g \in {types[i] : i \in 1..Len(types)} |-> get_start_date(g, datetime)]

\* The stored bars for whose granularity the floor map has no entry: the
\* closures of get_after and remove_before panic on them (expect).
Unconfigured(types, candles) ==
    {id \in DOMAIN candles :
        candles[id].candle_type \notin DOMAIN calculate_candle_dates(types, 0)}

get_after(types, candles, datetime) ==
    IF Cardinality(DOMAIN candles) = 0
    THEN NoneOpt
    ELSE LET candle_dates == calculate_candle_dates(types, datetime)
         IN  IF Unconfigured(types, candles) # {}
             THEN Panic
             ELSE Some({candles[id] : id \in
                          {x \in DOMAIN candles :
                             candles[x].datetime
                                 >= candle_dates[candles[x].candle_type]}})

\* retain without the test of the bar's granularity.
removed_of_type_any(candles, datetime, arg_type) ==
    LET current_date == get_start_date(arg_type, datetime)
    IN  {id \in DOMAIN candles : candles[id].datetime <= current_date}

\* remove_before with Some(candle_type): the ids that retain removes.
removed_of_type(candles, datetime, arg_type) ==
    LET current_date == get_start_date(arg_type, datetime)
    IN  {id \in DOMAIN candles :
            /\ candles[id].datetime <= current_date
            /\ candles[id].candle_type = arg_type}

\* retain keeping the bar of the bucket that contains datetime.
removed_of_all_strict(types, candles, datetime) ==
    LET floors == calculate_candle_dates(types, datetime)
    IN  {id \in DOMAIN candles \ Unconfigured(types, candles) :
            candles[id].datetime < floors[candles[id].candle_type]}

\* remove_before with None: the ids that retain removes when every stored
\* bar has an entry in the floor map.
removed_of_all(types, candles, datetime) ==
    LET floors == calculate_candle_dates(types, datetime)
    IN  {id \in DOMAIN candles \ Unconfigured(types, candles) :
            candles[id].datetime <= floors[candles[id].candle_type]}

get(candles, id) == IF id \in DOMAIN candles THEN Some(candles[id]) ELSE NoneOpt

(***************************************************************************)
(* Shared pieces of the initial states: the component a specification does *)
(* not exercise stays as constructed.                                      *)
(***************************************************************************)
CalendarIdle ==
    /\ pc = "idle" /\ last_date = 0 /\ date_to = 0 /\ dates = {} /\ iters = 0

PricesIdle == candle_type = "Minute" /\ prices_by_date = EmptyMap

CacheIdle ==
    /\ candle_types = <<>> /\ candles_by_ids = EmptyMap
    /\ last_update_date = NoneOpt /\ now = 0

(***************************************************************************)
(* The granularity calendar as a caller sees it: a behaviour is one call   *)
(* of one of its pure functions on inputs drawn from CalInstants.          *)
(***************************************************************************)
\* The instants the calendar is called with: before and after the epoch,
\* on and off the 3-, 7- and 12-day multiples, around month ends, a leap
\* February and a December.
CalInstants ==
    { -1036801, -120, -90, -1, 0, 59, 61, 3661, 86405, 259200, 345600, 604800,
      691200, 1036800, 2678399, 2678400, 946684800, 951825600, 976591414,
      978307200 }

InitCalendar ==
    /\ call = [fn |-> "new"] /\ ret = None /\ panicked = FALSE
    /\ CalendarIdle /\ PricesIdle /\ CacheIdle /\ history = <<>>

CallGetStartDate ==
    /\ call.fn = "new" /\ pc = "idle"
    /\ \E g \in CandleType, t \in CalInstants :
          /\ call' = [fn |-> "get_start_date", self |-> g, datetime |-> t]
          /\ ret' = get_start_date(g, t)
    /\ UNCHANGED <<panicked, calVars, pricesVars, cacheVars, history>>

CallGetDuration ==
    /\ call.fn = "new" /\ pc = "idle"
    /\ \E g \in CandleType, t \in CalInstants :
          /\ call' = [fn |-> "get_duration", self |-> g, datetime |-> t]
          /\ ret' = get_duration(g, t)
    /\ UNCHANGED <<panicked, calVars, pricesVars, cacheVars, history>>

CallGetEndDate ==
    /\ call.fn = "new" /\ pc = "idle"
    /\ \E g \in CandleType, t \in CalInstants :
          /\ call' = [fn |-> "get_end_date", self |-> g, datetime |-> t]
          /\ ret' = get_end_date(g, t)
    /\ UNCHANGED <<panicked, calVars, pricesVars, cacheVars, history>>

\* The numbers a decoder is handed: every code of the table, its neighbours
\* and the far ends of i32.
WireNumbers == (-2 .. 16) \cup {-2147483647, 2147483647}

CallInto ==
    /\ call.fn = "new" /\ pc = "idle"
    /\ \E g \in CandleType :
          /\ call' = [fn |-> "into", self |-> g]
          /\ ret' = into(g)
    /\ UNCHANGED <<panicked, calVars, pricesVars, cacheVars, history>>

CallTryFromPrimitive ==
    /\ call.fn = "new" /\ pc = "idle"
    /\ \E n \in WireNumbers :
          /\ call' = [fn |-> "try_from_primitive", number |-> n]
          /\ ret' = try_from_primitive(n)
    /\ UNCHANGED <<panicked, calVars, pricesVars, cacheVars, history>>

\* The instant k buckets of granularity g after the instant from.
RECURSIVE PlusBuckets(_, _, _)
PlusBuckets(g, from, k) ==
    IF k = 0 THEN from
    ELSE PlusBuckets(g, from + get_duration(g, from), k - 1)

\* The ends of the ranges asked about from the instant from: the instants of
\* CalInstants, the last second of the k-th bucket counted from `from`, and
\* the instant k buckets after `from`.
RangeEnds(g, from) ==
    {t \in CalInstants : from <= t}
       \cup {PlusBuckets(g, from, k) - 1 : k \in 1..MaxBuckets}
       \cup {PlusBuckets(g, from, k) : k \in 1..MaxBuckets}

\* get_dates_count built without overflow checks, or called where the u32
\* subtraction of line 137 does not go below zero.
CallGetDatesCount ==
    /\ call.fn = "new" /\ pc = "idle"
    /\ \E g \in CandleType, from \in CalInstants :
       \E to \in RangeEnds(g, from) :
          /\ call' = [fn |-> "get_dates_count", self |-> g,
                      datetime_from |-> from, datetime_to |-> to]
          /\ ret' = get_dates_count(g, from, to)
    /\ panicked' = FALSE
    /\ UNCHANGED <<calVars, pricesVars, cacheVars, history>>

\* get_dates_count built with overflow checks: the subtraction of line 137
\* panics when it goes below zero.
CallGetDatesCountOverflows ==
    /\ call.fn = "new" /\ pc = "idle"
    /\ \E g \in CandleType, from \in CalInstants :
       \E to \in RangeEnds(g, from) :
          /\ month_diff_overflows(g, from, to)
          /\ call' = [fn |-> "get_dates_count", self |-> g,
                      datetime_from |-> from, datetime_to |-> to]
    /\ ret' = None
    /\ panicked' = TRUE
    /\ UNCHANGED <<calVars, pricesVars, cacheVars, history>>

\* get_start_dates up to the loop: lines 103-108.
GetStartDatesEnter ==
    /\ call.fn = "new" /\ pc = "idle"
    /\ \E g \in CandleType, from \in CalInstants :
       \E to \in CalInstants \cup RangeEnds(g, from) :
          LET date_from == get_start_date(g, from) IN
          /\ call' = [fn |-> "get_start_dates", self |-> g,
                      datetime_from |-> from, datetime_to |-> to]
          /\ dates' = {date_from}
          /\ date_to' = get_start_date(g, to)
          /\ last_date' = get_start_date(g, date_from)
    /\ pc' = "loop"
    /\ iters' = 0
    /\ ret' = None
    /\ UNCHANGED <<panicked, pricesVars, cacheVars, history>>

\* One iteration of `while last_date < date_to`: lines 110-114.
GetStartDatesIterate ==
    /\ pc = "loop"
    /\ last_date < date_to
    /\ iters < MaxIters
    /\ LET next_date == get_start_date(call.self, last_date)
                        + get_duration(call.self, last_date)
       IN  /\ last_date' = get_start_date(call.self, next_date)
           /\ dates' = dates \cup {get_start_date(call.self, next_date)}
    /\ iters' = iters + 1
    /\ UNCHANGED <<call, ret, panicked, pc, date_to, pricesVars, cacheVars, history>>

\* The loop condition fails and the set is returned: lines 110, 116.
GetStartDatesReturn ==
    /\ pc = "loop"
    /\ ~(last_date < date_to)
    /\ pc' = "idle"
    /\ ret' = dates
    /\ UNCHANGED <<call, panicked, last_date, date_to, dates, iters,
                   pricesVars, cacheVars, history>>

NextCalendar ==
    \/ CallGetStartDate
    \/ CallGetDuration
    \/ CallGetEndDate
    \/ CallGetDatesCount
    \/ CallGetDatesCountOverflows
    \/ CallInto
    \/ CallTryFromPrimitive
    \/ GetStartDatesEnter
    \/ GetStartDatesIterate
    \/ GetStartDatesReturn

SpecCalendar == InitCalendar /\ [][NextCalendar]_vars

(***************************************************************************)
(* Claims about the calendar                                               *)
(***************************************************************************)
\* C1: containment: for every granularity g and instant t,
\* get_start_date(t, g) <= t < get_end_date(t, g).
C1_Containment ==
    call.fn = "get_end_date" =>
        /\ get_start_date(call.self, call.datetime) <= call.datetime
        /\ call.datetime < ret

\* C2: every iteration of the loop of get_start_dates strictly increases
\* last_date (so the loop terminates).
C2_LoopProgress == [][GetStartDatesIterate => last_date' > last_date]_vars

\* C9: flooring is idempotent: get_start_date applied to a value it returned
\* returns that value.
C9_Idempotent ==
    call.fn = "get_start_date" => get_start_date(call.self, ret) = ret

\* C9 witness: an instant strictly inside its bucket was floored.
C9_Witness ==
    /\ call.fn = "get_start_date"
    /\ call.self = "Month"
    /\ ret < call.datetime

(***************************************************************************)
(* Fold of ticks into a historical bar: a new CandlePricesCache that only  *)
(* receives update calls, the ticks being recorded in history.             *)
(***************************************************************************)
FoldTypes    == {"Minute", "Hour"}
FoldInstants == {-10, 0, 10, 70}
FoldRates    == {1, 2, 3}
FoldVolumes  == {1, 2}

InitFold ==
    /\ call = [fn |-> "new"] /\ ret = None /\ panicked = FALSE
    /\ CalendarIdle /\ CacheIdle
    /\ candle_type \in FoldTypes
    /\ prices_by_date = EmptyMap
    /\ history = <<>>

UpdateRecorded ==
    /\ Len(history) < MaxTicks
    /\ \E t \in FoldInstants, rate \in FoldRates, volume \in FoldVolumes :
          /\ prices_by_date' = update(candle_type, prices_by_date, t, rate, volume)
          /\ history' = Append(history,
                               [datetime |-> t, rate |-> rate, volume |-> volume])
    /\ call' = [fn |-> "update"]
    /\ ret' = None
    /\ UNCHANGED <<panicked, candle_type, calVars, cacheVars>>

NextFold == UpdateRecorded

SpecFold == InitFold /\ [][NextFold]_vars

(***************************************************************************)
(* The historical price cache under all of its operations.                 *)
(***************************************************************************)
PricesTypes    == {"Minute", "Hour"}
PricesInstants == {0, 30, 60}
PricesRates    == {1, 2}

InitPrices ==
    /\ call = [fn |-> "new"] /\ ret = None /\ panicked = FALSE
    /\ CalendarIdle /\ CacheIdle
    /\ candle_type \in PricesTypes
    /\ prices_by_date = EmptyMap
    /\ history = <<>>

PricesInit ==
    /\ ~panicked
    /\ \E t \in PricesInstants, rate \in PricesRates :
          /\ prices_by_date' = init(prices_by_date, CandleData_new(t, rate, 1))
          /\ call' = [fn |-> "init", datetime |-> t]
    /\ ret' = None
    /\ UNCHANGED <<panicked, candle_type, calVars, cacheVars, history>>

PricesUpdate ==
    /\ ~panicked
    /\ \E t \in PricesInstants, rate \in PricesRates :
          LET after == update(candle_type, prices_by_date, t, rate, 1) IN
          /\ \A k \in DOMAIN after : after[k].volume <= MaxVolume
          /\ prices_by_date' = after
          /\ call' = [fn |-> "update", datetime |-> t]
    /\ ret' = None
    /\ UNCHANGED <<panicked, candle_type, calVars, cacheVars, history>>

PricesGetByDateRange ==
    /\ ~panicked
    /\ \E from \in PricesInstants, to \in PricesInstants :
          /\ call' = [fn |-> "get_by_date_range", date_from |-> from, date_to |-> to]
          /\ ret' = get_by_date_range(prices_by_date, from, to)
          /\ panicked' = (from > to)
    /\ UNCHANGED <<pricesVars, calVars, cacheVars, history>>

PricesClear ==
    /\ ~panicked
    /\ prices_by_date' = clear(prices_by_date)
    /\ call' = [fn |-> "clear"]
    /\ ret' = None
    /\ UNCHANGED <<panicked, candle_type, calVars, cacheVars, history>>

NextPrices ==
    \/ PricesInit
    \/ PricesUpdate
    \/ PricesGetByDateRange
    \/ PricesClear

SpecPrices == InitPrices /\ [][NextPrices]_vars

(***************************************************************************)
(* The live aggregation cache under all of its operations.  Every mutating *)
(* call happens at a later reading of the clock than the one before.       *)
(***************************************************************************)
\* The lists CandlesCache::new is called with.
ConfigInputs ==
    { <<"Minute", "Hour">>, <<"Hour", "Minute">>, <<"Minute", "Hour", "Minute">>,
      <<"Minute", "Minute">>, <<>> }

Instruments == {"X", "Y"}

\* bid, ask, bid_vol, ask_vol of a tick.
TickPayloads ==
    { [bid |-> 1, ask |-> 2, bid_vol |-> 1, ask_vol |-> 2],
      [bid |-> 2, ask |-> 1, bid_vol |-> 2, ask_vol |-> 1] }

CacheInstants == {-30, 0, 70}

\* The tick payload used where the rates and volumes do not matter.
CachePayloads == { [bid |-> 1, ask |-> 2, bid_vol |-> 1, ask_vol |-> 2] }

\* The ids get is called with: of bars that may or may not be stored.
GetIds ==
    { generate_id("X", "Minute", 0), generate_id("X", "Day", 30),
      generate_id("Y", "Hour", 0) }

\* The bars insert is called with: of a granularity that may not be
\* configured, at a datetime that may not be a bucket start.
InsertCandles ==
    { [ask_data |-> CandleData_new(t, 2, 1), bid_data |-> CandleData_new(t, 1, 1),
       candle_type |-> g, instrument |-> "X", datetime |-> t] :
      g \in {"Minute", "Day"}, t \in {0, 30} }

\* The second argument of remove_before.
RemoveTypes == {None, "Minute", "Hour", "Day"}

InitCache ==
    /\ \E input \in ConfigInputs :
          /\ call = [fn |-> "new", candle_types |-> input]
          /\ candle_types = new(input)
    /\ ret = None /\ panicked = FALSE
    /\ candles_by_ids = EmptyMap
    /\ last_update_date = NoneOpt
    /\ now = 0
    /\ history = <<>>
    /\ CalendarIdle /\ PricesIdle

CacheCreateOrUpdate ==
    /\ ~panicked
    /\ now < MaxClock
    /\ \E t \in CacheInstants, i \in Instruments, p \in CachePayloads :
          /\ candles_by_ids' =
                create_or_update(candle_types, candles_by_ids, t, i,
                                 p.bid, p.ask, p.bid_vol, p.ask_vol)
          /\ call' = [fn |-> "create_or_update", datetime |-> t, instrument |-> i]
    /\ now' = now + 1
    /\ last_update_date' = Some(now')
    /\ ret' = None
    /\ UNCHANGED <<panicked, candle_types, calVars, pricesVars, history>>

CacheInsert ==
    /\ ~panicked
    /\ now < MaxClock
    /\ \E candle \in InsertCandles :
          /\ candles_by_ids' = insert(candles_by_ids, candle)
          /\ call' = [fn |-> "insert", id |-> get_id(candle)]
    /\ now' = now + 1
    /\ ret' = None
    /\ UNCHANGED <<panicked, candle_types, last_update_date,
                   calVars, pricesVars, history>>

\* remove_before(datetime, Some(candle_type)): lines 121-131, 147.
CacheRemoveBeforeOfType ==
    /\ ~panicked
    /\ now < MaxClock
    /\ \E t \in CacheInstants, g \in RemoveTypes \ {None} :
          LET removed == removed_of_type(candles_by_ids, t, g) IN
          /\ candles_by_ids' = Restrict(candles_by_ids, DOMAIN candles_by_ids \ removed)
          /\ ret' = Cardinality(removed)
          /\ call' = [fn |-> "remove_before", datetime |-> t, candle_type |-> g,
                      before |-> candles_by_ids]
    /\ now' = now + 1
    /\ UNCHANGED <<panicked, candle_types, last_update_date,
                   calVars, pricesVars, history>>

\* remove_before(datetime, None) when every stored bar has an entry in the
\* floor map: lines 132-147.
CacheRemoveBeforeAll ==
    /\ ~panicked
    /\ now < MaxClock
    /\ Unconfigured(candle_types, candles_by_ids) = {}
    /\ \E t \in CacheInstants :
          LET removed == removed_of_all(candle_types, candles_by_ids, t) IN
          /\ candles_by_ids' = Restrict(candles_by_ids, DOMAIN candles_by_ids \ removed)
          /\ ret' = Cardinality(removed)
          /\ call' = [fn |-> "remove_before", datetime |-> t, candle_type |-> None,
                      before |-> candles_by_ids]
    /\ now' = now + 1
    /\ UNCHANGED <<panicked, candle_types, last_update_date,
                   calVars, pricesVars, history>>

\* remove_before(datetime, None) when a stored bar has no entry in the floor
\* map: the closure of retain panics (line 136) on that bar, after retain
\* has removed the removable bars the map's iteration order put before it.
CacheRemoveBeforeAllPanics ==
    /\ ~panicked
    /\ now < MaxClock
    /\ Unconfigured(candle_types, candles_by_ids) # {}
    /\ \E t \in CacheInstants :
          /\ \E removed \in SUBSET removed_of_all(candle_types, candles_by_ids, t) :
                candles_by_ids' =
                    Restrict(candles_by_ids, DOMAIN candles_by_ids \ removed)
          /\ call' = [fn |-> "remove_before", datetime |-> t, candle_type |-> None,
                      before |-> candles_by_ids]
    /\ ret' = Panic
    /\ panicked' = TRUE
    /\ now' = now + 1
    /\ UNCHANGED <<candle_types, last_update_date, calVars, pricesVars, history>>

CacheGetAfter ==
    /\ ~panicked
    /\ \E t \in CacheInstants :
          /\ call' = [fn |-> "get_after", datetime |-> t]
          /\ ret' = get_after(candle_types, candles_by_ids, t)
    /\ panicked' = (candles_by_ids # EmptyMap
                    /\ Unconfigured(candle_types, candles_by_ids) # {})
    /\ UNCHANGED <<cacheVars, calVars, pricesVars, history>>

CacheGet ==
    /\ ~panicked
    /\ \E id \in GetIds :
          /\ call' = [fn |-> "get", id |-> id]
          /\ ret' = get(candles_by_ids, id)
    /\ UNCHANGED <<panicked, cacheVars, calVars, pricesVars, history>>

NextCache ==
    \/ CacheCreateOrUpdate
    \/ CacheInsert
    \/ CacheRemoveBeforeOfType
    \/ CacheRemoveBeforeAll
    \/ CacheRemoveBeforeAllPanics
    \/ CacheGetAfter
    \/ CacheGet

SpecCache == InitCache /\ [][NextCache]_vars

(***************************************************************************)
(* Ingestion: a new CandlesCache that only receives create_or_update       *)
(* calls, the ticks being recorded in history.                             *)
(***************************************************************************)
IngestInstants == {-3590, -3580, 110, 0, 10, 3700}

InitIngest == InitCache

CreateOrUpdateRecorded ==
    /\ Len(history) < MaxTicks
    /\ \E t \in IngestInstants, i \in Instruments, p \in TickPayloads :
          /\ candles_by_ids' =
                create_or_update(candle_types, candles_by_ids, t, i,
                                 p.bid, p.ask, p.bid_vol, p.ask_vol)
          /\ call' = [fn |-> "create_or_update", datetime |-> t, instrument |-> i,
                      before |-> candles_by_ids]
          /\ history' = Append(history,
                [datetime |-> t, instrument |-> i, bid |-> p.bid, ask |-> p.ask,
                 bid_vol |-> p.bid_vol, ask_vol |-> p.ask_vol])
    /\ now' = now + 1
    /\ last_update_date' = Some(now')
    /\ ret' = None
    /\ UNCHANGED <<panicked, candle_types, calVars, pricesVars>>

NextIngest == CreateOrUpdateRecorded

SpecIngest == InitIngest /\ [][NextIngest]_vars

(***************************************************************************)
(* Claims about the historical price cache                                 *)
(***************************************************************************)
RECURSIVE SumVolumes(_)
SumVolumes(ticks) ==
    IF ticks = <<>> THEN 0
    ELSE ticks[1].volume + SumVolumes(Tail(ticks))

HistoryRates == {history[i].rate : i \in 1..Len(history)}

\* All recorded ticks fall in the bucket of the first one.
OneBucket ==
    /\ history # <<>>
    /\ \A i \in 1..Len(history) :
          get_start_date(candle_type, history[i].datetime)
              = get_start_date(candle_type, history[1].datetime)

\* C3: after a non-empty sequence of updates of a new cache whose instants
\* all fall in one bucket, the cache holds exactly one bar, at the key
\* get_start_date(t_1), with open = first rate, high = maximum rate,
\* low = minimum rate, close = last rate and volume = sum of the volumes
\* (hence low <= open, close <= high).
C3_Fold ==
    OneBucket =>
        LET key == get_start_date(candle_type, history[1].datetime) IN
        /\ DOMAIN prices_by_date = {key}
        /\ LET bar == prices_by_date[key] IN
           /\ bar.open = history[1].rate
           /\ bar.close = history[Len(history)].rate
           /\ bar.high \in HistoryRates /\ \A r \in HistoryRates : r <= bar.high
           /\ bar.low \in HistoryRates /\ \A r \in HistoryRates : bar.low <= r
           /\ bar.volume = SumVolumes(history)
           /\ bar.low <= bar.open /\ bar.open <= bar.high
           /\ bar.low <= bar.close /\ bar.close <= bar.high

\* C3 witness: three ticks at three different instants of one bucket, whose
\* rates make open, high, low and close differ.
C3_Witness ==
    /\ OneBucket
    /\ Len(history) = 3
    /\ Cardinality({history[i].datetime : i \in 1..3}) = 3
    /\ history[1].rate = 2 /\ history[2].rate = 3 /\ history[3].rate = 1
    /\ SumVolumes(history) = 4

\* The keys of the stored bars that lie in [from, to).
KeysInRange(from, to) == {k \in DOMAIN prices_by_date : from <= k /\ k < to}

\* C7: get_by_date_range(from, to) returns exactly the stored bars whose key
\* k satisfies from <= k < to, each once, in strictly ascending order of k.
C7_Range ==
    call.fn = "get_by_date_range" =>
        /\ ~panicked
        /\ Len(ret) = Cardinality(KeysInRange(call.date_from, call.date_to))
        /\ \A i \in 1..Len(ret) :
              /\ ret[i].datetime \in KeysInRange(call.date_from, call.date_to)
              /\ ret[i] = prices_by_date[ret[i].datetime]
        /\ \A i \in 1..Len(ret), j \in 1..Len(ret) :
              i < j => ret[i].datetime < ret[j].datetime

\* The same statement for the calls with from <= to only.
C7_RangeOrdered ==
    (call.fn = "get_by_date_range" /\ call.date_from <= call.date_to) => C7_Range

\* C10: get_by_date_range completes for every pair of instants, in any
\* order, and get(id) completes for every id: neither call fails.
C10_NoFailure ==
    call.fn \in {"get_by_date_range", "get"} => ~panicked

(***************************************************************************)
(* Claims about the live aggregation cache                                 *)
(***************************************************************************)
StoredBars == {candles_by_ids[id] : id \in DOMAIN candles_by_ids}

\* C4: get_after(t) returns None if and only if the cache holds no entry;
\* otherwise it returns Some(S), S being exactly the stored bars whose
\* datetime is >= get_start_date(t, the bar's granularity).
C4_GetAfter ==
    call.fn = "get_after" =>
        /\ ~panicked
        /\ ~ret.some <=> candles_by_ids = EmptyMap
        /\ ret.some =>
              ret.value = {b \in StoredBars :
                             b.datetime >= get_start_date(b.candle_type, call.datetime)}

\* The same statement for the caches in which every stored bar is of a
\* configured granularity.
C4_GetAfterConfigured ==
    Unconfigured(candle_types, candles_by_ids) = {} => C4_GetAfter

\* C5: remove_before(t, Some(g)) removes exactly the stored bars of
\* granularity g whose datetime is <= get_start_date(t, g) and leaves every
\* other bar in the cache unchanged, whether or not g is configured.
C5_RemoveOfType ==
    (call.fn = "remove_before" /\ call.candle_type # None) =>
        LET before == call.before
            floor  == get_start_date(call.candle_type, call.datetime)
            gone   == {id \in DOMAIN before :
                          /\ before[id].candle_type = call.candle_type
                          /\ before[id].datetime <= floor}
        IN  /\ ~panicked
            /\ DOMAIN candles_by_ids = DOMAIN before \ gone
            /\ \A id \in DOMAIN candles_by_ids : candles_by_ids[id] = before[id]

\* C5 witness: a call removed a bar of g and kept both a bar of another
\* granularity that is not later than the floor and a later bar of g.
C5_Witness ==
    /\ call.fn = "remove_before" /\ call.candle_type = "Minute"
    /\ ret >= 1
    /\ \E b \in StoredBars :
          /\ b.candle_type # "Minute"
          /\ b.datetime <= get_start_date("Minute", call.datetime)
    /\ \E b \in StoredBars :
          /\ b.candle_type = "Minute"
          /\ b.datetime > get_start_date("Minute", call.datetime)

\* Every bar the cache held before the call is of a configured granularity
\* (as in a cache populated through create_or_update only).
BeforeConfigured == Unconfigured(candle_types, call.before) = {}

\* C6: remove_before(t, None) on a cache whose bars are all of configured
\* granularities removes exactly the bars whose datetime is <= the floor of
\* t in the bar's own granularity, so that every remaining bar is strictly
\* later than that floor; and with or without a granularity the returned
\* count is len() before the call minus len() after it.
C6_RemoveAll ==
    /\ (call.fn = "remove_before" /\ call.candle_type = None /\ BeforeConfigured) =>
          LET before == call.before
              gone   == {id \in DOMAIN before :
                            before[id].datetime
                                <= get_start_date(before[id].candle_type, call.datetime)}
          IN  /\ ~panicked
              /\ DOMAIN candles_by_ids = DOMAIN before \ gone
              /\ \A id \in DOMAIN candles_by_ids : candles_by_ids[id] = before[id]
              /\ \A b \in StoredBars :
                    b.datetime > get_start_date(b.candle_type, call.datetime)
              /\ ret = Cardinality(DOMAIN before) - Cardinality(DOMAIN candles_by_ids)
    /\ (call.fn = "remove_before" /\ call.candle_type # None) =>
          ret = Cardinality(DOMAIN call.before) - Cardinality(DOMAIN candles_by_ids)

\* C6 witness: a call without a granularity removed two bars, one of them
\* the bar of the bucket that contains t, and kept a later bar.
C6_Witness ==
    /\ call.fn = "remove_before" /\ call.candle_type = None /\ BeforeConfigured
    /\ ~panicked
    /\ ret >= 2
    /\ candles_by_ids # EmptyMap
    /\ \E id \in DOMAIN call.before :
          /\ id \notin DOMAIN candles_by_ids
          /\ call.before[id].datetime
                = get_start_date(call.before[id].candle_type, call.datetime)

\* The number of stored bars of granularity g.
BarsOfType(g) == Cardinality({id \in DOMAIN candles_by_ids :
                                 candles_by_ids[id].candle_type = g})

\* The end-to-end scenario: a cache configured with Minute and Hour that has
\* ingested exactly three ticks of one instrument at t0, t0 + 10 s and
\* t0 + 3700 s, t0 and t0 + 10 s being in the same minute bucket.
EndToEnd ==
    /\ {candle_types[i] : i \in 1..Len(candle_types)} = {"Minute", "Hour"}
    /\ Len(history) = 3
    /\ history[2].datetime = history[1].datetime + 10
    /\ history[3].datetime = history[1].datetime + 3700
    /\ history[2].instrument = history[1].instrument
    /\ history[3].instrument = history[1].instrument
    /\ get_start_date("Minute", history[1].datetime)
          = get_start_date("Minute", history[2].datetime)

Range(v) == {v[i] : i \in 1..Len(v)}

\* C11: for every input list of granularities, with repetitions adjacent or
\* not, CandlesCache::new yields a candle_types list that contains each input
\* granularity exactly once and is sorted in ascending order.
C11_NewDedupSort ==
    call.fn = "new" =>
        /\ Range(candle_types) = Range(call.candle_types)
        /\ \A i, j \in 1..Len(candle_types) :
              i < j => Discriminant(candle_types[i]) < Discriminant(candle_types[j])

(***************************************************************************)
(* Claims about the wire codes of the granularities                        *)
(***************************************************************************)
\* The table of wire codes, as published.
WireCodeTable ==
    [g \in CandleType |->
        CASE g = "Minute" -> 0          [] g = "Hour" -> 1
          [] g = "Day" -> 2             [] g = "Month" -> 3
          [] g = "ThreeMinutes" -> 4    [] g = "FiveMinutes" -> 5
          [] g = "FifteenMinutes" -> 6  [] g = "ThirtyMinutes" -> 7
          [] g = "TwoHours" -> 8        [] g = "FourHours" -> 9
          [] g = "SixHours" -> 10       [] g = "EightHours" -> 11
          [] g = "TwelveHours" -> 12    [] g = "ThreeDays" -> 13
          [] g = "SevenDays" -> 14]

\* C12: encoding a granularity gives its code of the published table,
\* decoding that code gives the granularity back, decoding a number of 0..14
\* gives the granularity of that code and decoding any other number gives an
\* error value, never a granularity.
C12_WireCodes ==
    /\ call.fn = "into" =>
          /\ ret = WireCodeTable[call.self]
          /\ try_from_primitive(ret) = [ok |-> TRUE, value |-> call.self]
    /\ call.fn = "try_from_primitive" =>
          IF call.number \in 0..14
          THEN /\ ret.ok
               /\ ret.value \in CandleType
               /\ WireCodeTable[ret.value] = call.number
          ELSE /\ ~ret.ok
               /\ ~panicked

\* C12 witness: a number just past the table was decoded into an error.
C12_Witness ==
    /\ call.fn = "try_from_primitive"
    /\ call.number = 15
    /\ ~ret.ok

(***************************************************************************)
(* Claims about get_dates_count and get_start_dates                        *)
(***************************************************************************)
\* C13: for every granularity but Month, every instant from that is a bucket
\* start and every k >= 1, get_dates_count(from, from + k * duration - 1 s)
\* returns k.
C13_WholeBuckets ==
    ( /\ call.fn = "get_dates_count"
      /\ call.self # "Month"
      /\ get_start_date(call.self, call.datetime_from) = call.datetime_from )
    => \A k \in 1..MaxBuckets :
          call.datetime_to
             = call.datetime_from
                  + k * get_duration(call.self, call.datetime_from) - 1
          => (~panicked /\ ret = k)

\* C14: for every granularity g and instants from <= to, the set returned by
\* get_start_dates(from, to) is { get_start_date(t) : from <= t <= to }: it
\* contains the bucket starts of from and of to, each of its elements is a
\* bucket start between those two, the start of the bucket following an
\* element before the last is an element too, the bucket start of every
\* instant of the range is an element, and for a bucket-aligned from and
\* to = from + k buckets it has k + 1 elements.
C14_StartDates ==
    ( /\ call.fn = "get_start_dates"
      /\ pc = "idle"
      /\ call.datetime_from <= call.datetime_to )
    => LET g     == call.self
           first == get_start_date(g, call.datetime_from)
           last  == get_start_date(g, call.datetime_to)
       IN  /\ first \in ret
           /\ last \in ret
           /\ \A d \in ret : get_start_date(g, d) = d /\ first <= d /\ d <= last
           /\ \A d \in ret : d < last => d + get_duration(g, d) \in ret
           /\ \A t \in CalInstants :
                 (call.datetime_from <= t /\ t <= call.datetime_to)
                 => get_start_date(g, t) \in ret
           /\ \A k \in 1..MaxBuckets :
                 ( /\ first = call.datetime_from
                   /\ call.datetime_to = PlusBuckets(g, call.datetime_from, k) )
                 => Cardinality(ret) = k + 1

\* Seconds since midnight of a DateTime<Utc>: its hour, minute and second.
SecondsOfDay(datetime) == datetime % 86400

\* C15: for every instant t, get_start_date(t, Month) has the year and month
\* of t, day 1 and time 00:00:00; get_end_date(t, Month) is the first instant
\* of the following calendar month, which is January of the next year when t
\* is in December; get_duration(t, Month) is between 28 and 31 days.
C15_MonthCalendar ==
    (call.fn \in {"get_start_date", "get_end_date", "get_duration"}
        /\ call.self = "Month")
    => LET t == call.datetime IN
       /\ call.fn = "get_start_date" =>
             /\ year(ret) = year(t) /\ month(ret) = month(t)
             /\ day(ret) = 1 /\ SecondsOfDay(ret) = 0
             /\ ret <= t
       /\ call.fn = "get_end_date" =>
             /\ day(ret) = 1 /\ SecondsOfDay(ret) = 0
             /\ ret > t
             /\ IF month(t) = 12
                THEN year(ret) = year(t) + 1 /\ month(ret) = 1
                ELSE year(ret) = year(t) /\ month(ret) = month(t) + 1
       /\ call.fn = "get_duration" =>
             /\ ret > 0
             /\ 28 * 86400 <= ret /\ ret <= 31 * 86400
             /\ ret % 86400 = 0

\* C15 witness: the end of the month of an instant of December 2000 was
\* asked for and is 2001-01-01T00:00:00Z.
C15_Witness ==
    /\ call.fn = "get_end_date" /\ call.self = "Month"
    /\ year(call.datetime) = 2000 /\ month(call.datetime) = 12
    /\ ret = 978307200

(***************************************************************************)
(* Claims about the bars the live aggregation cache stores                 *)
(***************************************************************************)
\* C16: after any sequence of new, insert, create_or_update and
\* remove_before, the granularity of every stored bar is a member of
\* candle_types, and neither get_after nor remove_before(.., None) panics on
\* a bar without an entry in the floor map.
C16_ConfiguredOnly ==
    /\ \A id \in DOMAIN candles_by_ids :
          candles_by_ids[id].candle_type \in Range(candle_types)
    /\ call.fn \in {"get_after", "remove_before"} => ~panicked

\* The ids of the buckets of the ingested ticks, one for each tick and each
\* configured granularity.
IngestedIds ==
    { generate_id(history[i].instrument, g,
                  get_start_date(g, history[i].datetime)) :
        i \in 1..Len(history), g \in Range(candle_types) }

\* The ids of the buckets of the tick of the last create_or_update call.
CallIds ==
    { generate_id(call.instrument, g, get_start_date(g, call.datetime)) :
        g \in Range(candle_types) }

\* C17: after any sequence of create_or_update calls the cache holds exactly
\* one entry for each triple (instrument, configured granularity, bucket
\* start) of an ingested tick and no other entry; one call creates or folds
\* the entries of its own tick, one per configured granularity, and leaves
\* every other entry, those of other instruments included, as it was.
C17_OneBarPerBucket ==
    /\ DOMAIN candles_by_ids = IngestedIds
    /\ \A id \in DOMAIN candles_by_ids : get_id(candles_by_ids[id]) = id
    /\ \A i \in 1..Len(history), g \in Range(candle_types) :
          Cardinality({id \in DOMAIN candles_by_ids :
                          /\ candles_by_ids[id].instrument = history[i].instrument
                          /\ candles_by_ids[id].candle_type = g
                          /\ candles_by_ids[id].datetime
                                = get_start_date(g, history[i].datetime)}) = 1
    /\ call.fn = "create_or_update" =>
          /\ DOMAIN candles_by_ids = DOMAIN call.before \cup CallIds
          /\ \A id \in CallIds :
                \/ id \notin DOMAIN call.before
                \/ candles_by_ids[id] # call.before[id]
          /\ \A id \in DOMAIN call.before \ CallIds :
                candles_by_ids[id] = call.before[id]
          /\ \A id \in DOMAIN candles_by_ids :
                candles_by_ids[id].instrument # call.instrument
                => (id \in DOMAIN call.before
                      /\ candles_by_ids[id] = call.before[id])

\* C17 witness: with two granularities configured, a call folded its tick
\* into a bar that was stored while a bar of another instrument was stored
\* too.
C17_Witness ==
    /\ call.fn = "create_or_update"
    /\ Cardinality(Range(candle_types)) = 2
    /\ \E id \in CallIds : id \in DOMAIN call.before
    /\ \E id \in DOMAIN call.before :
          call.before[id].instrument # call.instrument

\* The ingested ticks, by their position in history, that belong to the
\* bucket of a stored bar.
TicksOf(bar) ==
    {i \in 1..Len(history) :
        /\ history[i].instrument = bar.instrument
        /\ get_start_date(bar.candle_type, history[i].datetime) = bar.datetime}

RECURSIVE SumBidVol(_)
SumBidVol(T) ==
    IF T = {} THEN 0
    ELSE LET i == CHOOSE i \in T : TRUE
         IN  history[i].bid_vol + SumBidVol(T \ {i})

RECURSIVE SumAskVol(_)
SumAskVol(T) ==
    IF T = {} THEN 0
    ELSE LET i == CHOOSE i \in T : TRUE
         IN  history[i].ask_vol + SumAskVol(T \ {i})

\* C18: for a cache built from any granularity list, lists with repeated
\* granularities included, every stored bar's bid volume is the sum of
\* bid_vol and its ask volume the sum of ask_vol over the ticks of its
\* instrument in its bucket, each counted once, and its bid-side open, high,
\* low and close are those of the bid rates of these ticks, its ask-side ones
\* those of the ask rates.
C18_FoldedOnce ==
    \A id \in DOMAIN candles_by_ids :
       LET bar   == candles_by_ids[id]
           T     == TicksOf(bar)
           first == CHOOSE i \in T : \A j \in T : i <= j
           last  == CHOOSE i \in T : \A j \in T : j <= i
       IN  /\ T # {}
           /\ bar.bid_data.volume = SumBidVol(T)
           /\ bar.ask_data.volume = SumAskVol(T)
           /\ bar.bid_data.open = history[first].bid
           /\ bar.bid_data.close = history[last].bid
           /\ \A i \in T : bar.bid_data.low <= history[i].bid
                           /\ history[i].bid <= bar.bid_data.high
           /\ \E i \in T : bar.bid_data.high = history[i].bid
           /\ \E i \in T : bar.bid_data.low = history[i].bid
           /\ bar.ask_data.open = history[first].ask
           /\ bar.ask_data.close = history[last].ask
           /\ \A i \in T : bar.ask_data.low <= history[i].ask
                           /\ history[i].ask <= bar.ask_data.high
           /\ \E i \in T : bar.ask_data.high = history[i].ask
           /\ \E i \in T : bar.ask_data.low = history[i].ask

\* C19: for every bar created by create_or_update, the start time of its bid
\* accumulator and of its ask accumulator is the bar's own datetime, the
\* bucket start and not the raw tick time, also after later folds.
C19_SharedBucket ==
    \A id \in DOMAIN candles_by_ids :
       LET bar == candles_by_ids[id]
       IN  /\ bar.datetime = get_start_date(bar.candle_type, bar.datetime)
           /\ bar.bid_data.datetime = bar.datetime
           /\ bar.ask_data.datetime = bar.datetime

\* The number of calendar months from the month of the instant from through
\* the month of the instant to, both included.
MonthsSpanned(from, to) ==
    (12 * year(to) + month(to)) - (12 * year(from) + month(from)) + 1

\* C20: for instants from <= to, get_dates_count(from, to) of Month returns
\* the number of calendar months from the month of from through the month of
\* to, also when the month number of get_end_date(to) is below the month
\* number of get_start_date(from).
C20_MonthCount ==
    ( /\ call.fn = "get_dates_count"
      /\ call.self = "Month"
      /\ call.datetime_from <= call.datetime_to )
    => /\ ~panicked
       /\ ret = MonthsSpanned(call.datetime_from, call.datetime_to)

(***************************************************************************)
(* Claims about the keys of the historical price cache                     *)
(***************************************************************************)
\* C21: after any sequence of init, update and clear on a CandlePricesCache
\* of granularity g, every key of prices_by_date is a bucket start of g, the
\* bar stored at a key has that key as its start time, and no two keys lie
\* in the same bucket.
C21_KeysAreBucketStarts ==
    /\ \A k \in DOMAIN prices_by_date :
          /\ get_start_date(candle_type, k) = k
          /\ prices_by_date[k].datetime = k
    /\ \A k1, k2 \in DOMAIN prices_by_date :
          get_start_date(candle_type, k1) = get_start_date(candle_type, k2)
          => k1 = k2

(***************************************************************************)
(* Claims about last_update_date and the None result of get_after          *)
(***************************************************************************)
\* C22: last_update_date is None on a new cache, is the current time after
\* every create_or_update call, and is not older than the most recent call
\* that changed the stored bars, be it create_or_update, insert or a
\* remove_before that removed something.
C22_LastUpdate ==
    /\ call.fn = "new" => last_update_date = NoneOpt
    /\ call.fn = "create_or_update" => last_update_date = Some(now)
    /\ ( \/ call.fn = "insert"
         \/ (call.fn = "remove_before" /\ candles_by_ids # call.before) )
       => (last_update_date.some /\ last_update_date.value >= now)

\* C23: once a create_or_update call on a cache with at least one configured
\* granularity has completed (only such a call sets last_update_date), every
\* later get_after call that returns returns Some(..), whatever remove_before
\* calls happened in between.
C23_SomeAfterIngest ==
    ( /\ call.fn = "get_after"
      /\ candle_types # <<>>
      /\ last_update_date.some )
    => (panicked \/ ret.some)

====
